---- MODULE Spec2Model ----
(***************************************************************************)
(* A model of the Composa template engine (src/src/template-engine.js)    *)
(* and of the template part of EmailClient (src/src/email-client.js).     *)
(*                                                                         *)
(* Strings are sequences of one-character strings, so that key building   *)
(* (`${lang}/${templateName}`), toLowerCase, String.includes, path.join   *)
(* and the placeholder regular expressions are computed, not assumed.     *)
(* The file system is case-sensitive, and holds files only at the paths   *)
(* of DiskFiles, relative to templatesPath.                               *)
(***************************************************************************)
EXTENDS Integers, Sequences, FiniteSets, TLC

VARIABLES
    defaultLang,      \* TemplateEngine.defaultLang
    memoryTemplates,  \* TemplateEngine.memoryTemplates : key -> body
    cache,            \* TemplateEngine.cache : key -> body
    disk,             \* the files under templatesPath : path -> content
    defaults,         \* TemplateEngine.defaults : placeholder -> value
    subjects,         \* EmailClient.subjects : name -> (lang -> subject)
    defaultFrom,      \* EmailClient.defaultFrom
    transporter,      \* the messages handed to transporter.sendMail, in order
    instances,        \* the objects constructed, where there are two
    heap,             \* the objects they can share by reference
    task,             \* the asynchronous call in progress, with its locals
    last              \* the latest call on the engine and what it did

vars ==
    <<defaultLang, memoryTemplates, cache, disk, defaults, subjects, defaultFrom,
      transporter, instances, heap, task, last>>

\* The variables of the sending of mail and of the objects side by side.
mailVars == <<defaultFrom, transporter, task, instances, heap>>

----------------------------------------------------------------------------
(* Bounds *)

MaxMem == 1     \* keys registered in memory
MaxFiles == 2   \* template files on disk at a time
MaxSegs == 3    \* pieces (texts and placeholders) of a template to render
MaxSubj == 2    \* subjects registered

----------------------------------------------------------------------------
(* Strings *)

RECURSIVE Includes(_, _)
\* String.prototype.includes on character sequences.
Includes(s, sub) ==
    IF Len(s) < Len(sub) THEN FALSE
    ELSE IF SubSeq(s, 1, Len(sub)) = sub THEN TRUE
    ELSE Includes(Tail(s), sub)

LowerChar(c) ==
    CASE c = "E" -> "e"
      [] c = "N" -> "n"
      [] c = "F" -> "f"
      [] c = "R" -> "r"
      [] c = "U" -> "u"
      [] c = "S" -> "s"
      [] OTHER -> c

\* String.prototype.toLowerCase
ToLowerCase(s) == [i \in 1..Len(s) |-> LowerChar(s[i])]

\* Language tags
L_en == <<"e", "n">>
L_fr == <<"f", "r">>
L_enEN == <<"e", "n", "-", "E", "N">>
L_enUS == <<"e", "n", "-", "U", "S">>
L_frFR == <<"f", "r", "-", "F", "R">>

\* Template names: a safe one, the empty one, one with a path separator,
\* one with ".." and no separator.
N_w == <<"w">>
N_empty == <<>>
N_slash == <<"a", "/", "b">>
N_dots == <<".", ".", "s">>

Names == {N_w}
AllNames == {N_w, N_empty, N_slash, N_dots}
Langs == {L_en, L_fr, L_frFR}
ShortLangs == {L_en, L_fr}
DefaultLangs == {L_en, L_fr}
\* Template bodies, as opaque one-token strings.
MemBodies == {<<"M1">>, <<"M2">>}
DiskBodies == {<<"D1">>, <<"D2">>}

NoValue == <<"#none">>             \* no file, no result
Unreadable == <<"#unreadable">>    \* the path exists and reading it throws

\* `${lang}/${templateName}`
Key(lang, templateName) == lang \o <<"/">> \o templateName

EmptyMap == [k \in {} |-> NoValue]

\* A Map.set that stores nothing.
MapSetDropped(m, k, v) == m

\* Map.prototype.set
MapSet(m, k, v) == [x \in DOMAIN m \cup {k} |-> IF x = k THEN v ELSE m[x]]

----------------------------------------------------------------------------
(* Paths *)

RECURSIVE SplitPath(_, _, _)
\* The segments of a path string, split at "/".
SplitPath(s, cur, acc) ==
    IF s = <<>> THEN Append(acc, cur)
    ELSE IF Head(s) = "/" THEN SplitPath(Tail(s), <<>>, Append(acc, cur))
    ELSE SplitPath(Tail(s), Append(cur, Head(s)), acc)

RECURSIVE NormalizePath(_, _)
\* path.normalize on the segments: "" and "." vanish, ".." removes the
\* segment before it, or stays when there is none to remove.
NormalizePath(segs, acc) ==
    IF segs = <<>> THEN acc
    ELSE LET s == Head(segs) IN
         IF s = <<>> \/ s = <<".">> THEN NormalizePath(Tail(segs), acc)
         ELSE IF s = <<".", ".">> THEN
             IF acc # <<>> /\ acc[Len(acc)] # <<".", ".">>
             THEN NormalizePath(Tail(segs), SubSeq(acc, 1, Len(acc) - 1))
             ELSE NormalizePath(Tail(segs), Append(acc, s))
         ELSE NormalizePath(Tail(segs), Append(acc, s))

\* path.join(this.templatesPath, lang, `${templateName}.xhtml`), relative to
\* templatesPath.
JoinPath(lang, templateName) ==
    NormalizePath(SplitPath(lang \o <<"/">> \o templateName \o <<".xhtml">>,
                            <<>>, <<>>), <<>>)

DiskDirs == {L_enEN, L_enUS, L_frFR}

DiskFiles == {JoinPath(d, N_w) : d \in DiskDirs}

\* A template name that climbs out of the language directory, and the file
\* it leads to: <templatesPath>/s.xhtml.
N_up == <<".", ".", "/", "s">>
OutsideFile == JoinPath(L_fr, N_up)

\* The files of the model.
AllFiles == DiskFiles \cup {OutsideFile}

\* fs.existsSync
existsSync(p) == p \in DOMAIN disk /\ disk[p] # NoValue

----------------------------------------------------------------------------
(* TemplateEngine *)

NoErr == [kind |-> "none", name |-> <<>>, lang |-> <<>>]

\* The validation of #readTemplateFromDiskSync.
InvalidTemplateName(templateName) ==
    \/ templateName = <<>>
    \/ Includes(templateName, <<".", ".">>)
    \/ Includes(templateName, <<"/">>)

\* #readTemplateFromDiskSync without its validation of the template name.
readTemplateFromDiskSyncUnchecked(templateName, lang) ==
    LET filePath == JoinPath(lang, templateName) IN
    IF ~existsSync(filePath)
    THEN [ok |-> FALSE, value |-> NoValue, err |-> "FileMissing",
          fs |-> <<[op |-> "exists", path |-> filePath]>>]
    ELSE IF disk[filePath] = Unreadable
    THEN [ok |-> FALSE, value |-> NoValue, err |-> "ReadError",
          fs |-> <<[op |-> "exists", path |-> filePath],
                   [op |-> "read", path |-> filePath]>>]
    ELSE [ok |-> TRUE, value |-> disk[filePath], err |-> "none",
          fs |-> <<[op |-> "exists", path |-> filePath],
                   [op |-> "read", path |-> filePath]>>]

\* #readTemplateFromDiskSync giving the empty string when the read fails.
readTemplateFromDiskSyncEmptyOnError(templateName, lang) ==
    IF InvalidTemplateName(templateName)
    THEN [ok |-> FALSE, value |-> NoValue, err |-> "InvalidTemplateName", fs |-> <<>>]
    ELSE LET filePath == JoinPath(lang, templateName) IN
         IF ~existsSync(filePath)
         THEN [ok |-> FALSE, value |-> NoValue, err |-> "FileMissing",
               fs |-> <<[op |-> "exists", path |-> filePath]>>]
         ELSE [ok |-> TRUE,
               value |-> IF disk[filePath] = Unreadable THEN <<>> ELSE disk[filePath],
               err |-> "none",
               fs |-> <<[op |-> "exists", path |-> filePath],
                        [op |-> "read", path |-> filePath]>>]

\* #readTemplateFromDiskSync: the value read or the error thrown, and the
\* file system calls made.
readTemplateFromDiskSync(templateName, lang) ==
    IF InvalidTemplateName(templateName)
    THEN [ok |-> FALSE, value |-> NoValue, err |-> "InvalidTemplateName", fs |-> <<>>]
    ELSE LET filePath == JoinPath(lang, templateName) IN
         IF ~existsSync(filePath)
         THEN [ok |-> FALSE, value |-> NoValue, err |-> "FileMissing",
               fs |-> <<[op |-> "exists", path |-> filePath]>>]
         ELSE IF disk[filePath] = Unreadable
         THEN [ok |-> FALSE, value |-> NoValue, err |-> "ReadError",
               fs |-> <<[op |-> "exists", path |-> filePath],
                        [op |-> "read", path |-> filePath]>>]
         ELSE [ok |-> TRUE, value |-> disk[filePath], err |-> "none",
               fs |-> <<[op |-> "exists", path |-> filePath],
                        [op |-> "read", path |-> filePath]>>]

\* #getLangCandidates with the variants of "en" in the other order.
getLangCandidatesSwapped(lang) ==
    LET normalized == ToLowerCase(IF lang = <<>> THEN defaultLang ELSE lang) IN
    <<normalized>>
      \o (IF normalized = L_en THEN <<L_enUS, L_enEN>> ELSE <<>>)
      \o (IF normalized = L_fr THEN <<L_frFR>> ELSE <<>>)

\* #getLangCandidates
getLangCandidates(lang) ==
    LET normalized == ToLowerCase(IF lang = <<>> THEN defaultLang ELSE lang) IN
    <<normalized>>
      \o (IF normalized = L_en THEN <<L_enEN, L_enUS>> ELSE <<>>)
      \o (IF normalized = L_fr THEN <<L_frFR>> ELSE <<>>)

RECURSIVE tryCandidatesCacheFirst(_, _, _)
\* The candidate loop with the cache consulted before the memory map.
tryCandidatesCacheFirst(candidates, templateName, fs) ==
    IF candidates = <<>>
    THEN [found |-> FALSE, value |-> NoValue, src |-> "none", key |-> <<>>,
          cache |-> cache, fs |-> fs]
    ELSE LET candidate == Head(candidates)
             key == Key(candidate, templateName)
         IN  IF key \in DOMAIN cache
             THEN [found |-> TRUE, value |-> cache[key], src |-> "cache",
                   key |-> key, cache |-> cache, fs |-> fs]
             ELSE IF key \in DOMAIN memoryTemplates
             THEN [found |-> TRUE, value |-> memoryTemplates[key], src |-> "memory",
                   key |-> key, cache |-> cache, fs |-> fs]
             ELSE LET r == readTemplateFromDiskSync(templateName, candidate) IN
                  IF r.ok
                  THEN [found |-> TRUE, value |-> r.value, src |-> "disk",
                        key |-> key, cache |-> MapSet(cache, key, r.value),
                        fs |-> fs \o r.fs]
                  ELSE tryCandidatesCacheFirst(Tail(candidates), templateName,
                                               fs \o r.fs)

RECURSIVE tryCandidatesReread(_, _, _)
\* The candidate loop with the file read before the cache is consulted, and
\* stored over the entry.
tryCandidatesReread(candidates, templateName, fs) ==
    IF candidates = <<>>
    THEN [found |-> FALSE, value |-> NoValue, src |-> "none", key |-> <<>>,
          cache |-> cache, fs |-> fs]
    ELSE LET candidate == Head(candidates)
             key == Key(candidate, templateName)
         IN  IF key \in DOMAIN memoryTemplates
             THEN [found |-> TRUE, value |-> memoryTemplates[key], src |-> "memory",
                   key |-> key, cache |-> cache, fs |-> fs]
             ELSE LET r == readTemplateFromDiskSync(templateName, candidate) IN
                  IF r.ok
                  THEN [found |-> TRUE, value |-> r.value, src |-> "disk",
                        key |-> key, cache |-> MapSet(cache, key, r.value),
                        fs |-> fs \o r.fs]
                  ELSE IF key \in DOMAIN cache
                  THEN [found |-> TRUE, value |-> cache[key], src |-> "cache",
                        key |-> key, cache |-> cache, fs |-> fs \o r.fs]
                  ELSE tryCandidatesReread(Tail(candidates), templateName,
                                           fs \o r.fs)

RECURSIVE tryCandidates(_, _, _)
\* One candidate loop of load: memory, then cache, then disk, candidate by
\* candidate; a disk error moves on to the next candidate.
tryCandidates(candidates, templateName, fs) ==
    IF candidates = <<>>
    THEN [found |-> FALSE, value |-> NoValue, src |-> "none", key |-> <<>>,
          cache |-> cache, fs |-> fs]
    ELSE LET candidate == Head(candidates)
             key == Key(candidate, templateName)
         IN  IF key \in DOMAIN memoryTemplates
             THEN [found |-> TRUE, value |-> memoryTemplates[key], src |-> "memory",
                   key |-> key, cache |-> cache, fs |-> fs]
             ELSE IF key \in DOMAIN cache
             THEN [found |-> TRUE, value |-> cache[key], src |-> "cache",
                   key |-> key, cache |-> cache, fs |-> fs]
             ELSE LET r == readTemplateFromDiskSync(templateName, candidate) IN
                  IF r.ok
                  THEN [found |-> TRUE, value |-> r.value, src |-> "disk",
                        key |-> key, cache |-> MapSet(cache, key, r.value),
                        fs |-> fs \o r.fs]
                  ELSE tryCandidates(Tail(candidates), templateName, fs \o r.fs)

\* load without its second loop, over the default language's candidates.
loadRequestedOnly(templateName, lang) ==
    tryCandidates(getLangCandidates(lang), templateName, <<>>)

\* load: the requested language's candidates, then the default language's.
load(templateName, lang) ==
    LET first == tryCandidates(getLangCandidates(lang), templateName, <<>>) IN
    IF first.found THEN first
    ELSE tryCandidates(getLangCandidates(defaultLang), templateName, first.fs)

----------------------------------------------------------------------------
(* Values and placeholders *)

\* A JavaScript value, with the string that String(value) gives.
JsString(s) == [type |-> "string", str |-> s]
JsZero == [type |-> "number", str |-> <<"0">>]
JsFalse == [type |-> "boolean", str |-> <<"f", "a", "l", "s", "e">>]
JsNull == [type |-> "null", str |-> <<"n", "u", "l", "l">>]
JsUndefined ==
    [type |-> "undefined", str |-> <<"u", "n", "d", "e", "f", "i", "n", "e", "d">>]

\* !value in the place of value == null, for the values of the model.
IsFalsy(v) ==
    \/ v.type \in {"null", "undefined"}
    \/ v.str \in {<<>>, <<"0">>, <<"f", "a", "l", "s", "e">>}

\* value == null
IsNullish(v) == v.type \in {"null", "undefined"}

\* The truthiness that || tests.
Truthy(v) ==
    CASE v.type = "string" -> v.str # <<>>
      [] v.type = "number" -> v.str # <<"0">>
      [] v.type = "boolean" -> v.str # <<"f", "a", "l", "s", "e">>
      [] OTHER -> FALSE

\* obj[key], undefined when the object has no such property.
Get(obj, key) == IF key \in DOMAIN obj THEN obj[key] ELSE JsUndefined

\* { ...b, ...a }: the spread with the first object winning.
MergeFirstWins(a, b) ==
    [k \in DOMAIN a \cup DOMAIN b |-> IF k \in DOMAIN a THEN a[k] ELSE b[k]]

\* { ...a, ...b }
Merge(a, b) ==
    [k \in DOMAIN a \cup DOMAIN b |-> IF k \in DOMAIN b THEN b[k] ELSE a[k]]

\* Placeholder names. A name of several letters is one token: a run of
\* identifier characters.
K_X == <<"X">>
K_Y == <<"Y">>
K_APP_NAME == <<"APP_NAME">>
K_APP_URL == <<"APP_URL">>
K_SUPPORT_EMAIL == <<"SUPPORT_EMAIL">>
K_STATUS_URL == <<"STATUS_URL">>
K_TERMS_URL == <<"TERMS_URL">>
K_COMMUNITY_GUIDELINES_URL == <<"COMMUNITY_GUIDELINES_URL">>
K_LEGAL_EMAIL == <<"LEGAL_EMAIL">>
K_APPEALS_EMAIL == <<"APPEALS_EMAIL">>
K_LOGO_URL == <<"LOGO_URL">>
K_CURRENT_YEAR == <<"CURRENT_YEAR">>

\* [a-zA-Z_] and [a-zA-Z0-9_], on tokens.
IdStart(c) ==
    c \in {"X", "Y", "h", "_", "APP_NAME", "APP_URL", "SUPPORT_EMAIL", "STATUS_URL",
           "TERMS_URL", "COMMUNITY_GUIDELINES_URL", "LEGAL_EMAIL", "APPEALS_EMAIL",
           "LOGO_URL", "CURRENT_YEAR"}
IdChar(c) == IdStart(c) \/ c \in {"0", "1"}

\* String(new Date().getFullYear())
CurrentYear == JsString(<<"2", "0", "2", "6">>)

\* options.defaults?.KEY || fallback with the option never read.
OrElseFallback(opts, key, fallback) == fallback

\* options.defaults?.KEY || fallback
OrElse(opts, key, fallback) ==
    IF Truthy(Get(opts, key)) THEN opts[key] ELSE fallback

\* this.defaults as the TemplateEngine constructor builds it from
\* options.defaults.
EngineDefaults(opts) ==
    Merge(
      (K_APP_NAME :> OrElse(opts, K_APP_NAME, JsString(<<"Your App">>)))
      @@ (K_APP_URL :> OrElse(opts, K_APP_URL, JsString(<<"https://example.com">>)))
      @@ (K_SUPPORT_EMAIL :>
            OrElse(opts, K_SUPPORT_EMAIL, JsString(<<"support@example.com">>)))
      @@ (K_STATUS_URL :>
            OrElse(opts, K_STATUS_URL, JsString(<<"https://status.example.com">>)))
      @@ (K_TERMS_URL :>
            OrElse(opts, K_TERMS_URL, JsString(<<"https://example.com/terms">>)))
      @@ (K_COMMUNITY_GUIDELINES_URL :>
            OrElse(opts, K_COMMUNITY_GUIDELINES_URL,
                   JsString(<<"https://example.com/community-guidelines">>)))
      @@ (K_LEGAL_EMAIL :>
            OrElse(opts, K_LEGAL_EMAIL, JsString(<<"legal@example.com">>)))
      @@ (K_APPEALS_EMAIL :>
            OrElse(opts, K_APPEALS_EMAIL,
                   OrElse(opts, K_SUPPORT_EMAIL, JsString(<<"support@example.com">>))))
      @@ (K_LOGO_URL :>
            OrElse(opts, K_LOGO_URL, JsString(<<"https://cdn.example.com/logo.png">>)))
      @@ (K_CURRENT_YEAR :> CurrentYear),
      opts)

\* this.defaults as the EmailClient constructor builds it.
ClientDefaults(opts) ==
    Merge(
      (K_APP_NAME :> OrElse(opts, K_APP_NAME, JsString(<<"Your App">>)))
      @@ (K_APP_URL :> OrElse(opts, K_APP_URL, JsString(<<"https://example.com">>)))
      @@ (K_SUPPORT_EMAIL :>
            OrElse(opts, K_SUPPORT_EMAIL, JsString(<<"support@example.com">>)))
      @@ (K_CURRENT_YEAR :> CurrentYear),
      opts)

NoOptions == [k \in {} |-> JsUndefined]

\* The escape map without its entry for the apostrophe.
escapeMapNoApostrophe(char) ==
    CASE char = "&" -> <<"&", "a", "m", "p", ";">>
      [] char = "<" -> <<"&", "l", "t", ";">>
      [] char = ">" -> <<"&", "g", "t", ";">>
      [] char = "\"" -> <<"&", "q", "u", "o", "t", ";">>
      [] OTHER -> <<char>>

\* The escape map of replaceVariables.
escapeMap(char) ==
    CASE char = "&" -> <<"&", "a", "m", "p", ";">>
      [] char = "<" -> <<"&", "l", "t", ";">>
      [] char = ">" -> <<"&", "g", "t", ";">>
      [] char = "\"" -> <<"&", "q", "u", "o", "t", ";">>
      [] char = "'" -> <<"&", "#", "3", "9", ";">>
      [] OTHER -> <<char>>

RECURSIVE escapeHtml(_)
\* String(value).replace(/[&<>"']/g, (char) => escapeMap[char])
escapeHtml(s) ==
    IF s = <<>> THEN <<>> ELSE escapeMap(Head(s)) \o escapeHtml(Tail(s))

RECURSIVE IdRun(_, _)
\* The end of the longest run of identifier characters of s from place i.
IdRun(s, i) ==
    IF i + 1 <= Len(s) /\ IdChar(s[i + 1]) THEN IdRun(s, i + 1) ELSE i

\* /\{\{([a-zA-Z_][a-zA-Z0-9_]*)\}\}/ at the head of s: the length of the
\* match (0: none) and the key.
matchPlaceholder(s) ==
    IF Len(s) >= 5 /\ s[1] = "{" /\ s[2] = "{" /\ IdStart(s[3])
    THEN LET e == IdRun(s, 3) IN
         IF e + 2 <= Len(s) /\ s[e + 1] = "}" /\ s[e + 2] = "}"
         THEN [len |-> e + 2, key |-> SubSeq(s, 3, e)]
         ELSE [len |-> 0, key |-> <<>>]
    ELSE [len |-> 0, key |-> <<>>]

RECURSIVE scanTemplate(_, _, _, _)
\* template.replace(regex, callback), from left to right.
scanTemplate(s, data, out, missing) ==
    IF s = <<>> THEN [result |-> out, missing |-> missing]
    ELSE LET m == matchPlaceholder(s) IN
         IF m.len = 0
         THEN scanTemplate(Tail(s), data, Append(out, Head(s)), missing)
         ELSE IF IsNullish(Get(data, m.key))
         THEN scanTemplate(SubSeq(s, m.len + 1, Len(s)), data, out,
                           Append(missing, m.key))
         ELSE scanTemplate(SubSeq(s, m.len + 1, Len(s)), data,
                           out \o escapeHtml(Get(data, m.key).str), missing)

\* replaceVariables with one warning printed for each missing key.
replaceVariablesWarnEach(template, variables) ==
    LET r == scanTemplate(template, Merge(defaults, variables), <<>>, <<>>) IN
    [result |-> r.result,
     missing |-> r.missing,
     warn |-> [i \in 1..Len(r.missing) |-> <<r.missing[i]>>]]

\* replaceVariables with the caller's variables alone for the data.
replaceVariablesNoDefaults(template, variables) ==
    LET r == scanTemplate(template, variables, <<>>, <<>>) IN
    [result |-> r.result,
     missing |-> r.missing,
     warn |-> IF r.missing # <<>> THEN <<r.missing>> ELSE <<>>]

\* TemplateEngine.replaceVariables: the string returned and the warning
\* printed.
replaceVariables(template, variables) ==
    LET r == scanTemplate(template, Merge(defaults, variables), <<>>, <<>>) IN
    [result |-> r.result,
     missing |-> r.missing,
     warn |-> IF r.missing # <<>> THEN <<r.missing>> ELSE <<>>]

\* The value undefined, and the default of options.defaultFrom.
Undefined == "#undefined"
DefaultFrom == "noreply@example.com"

\* No asynchronous call in progress.
NoTask ==
    [op |-> "none", pc |-> "idle", mailOptions |-> <<>>, recipients |-> <<>>,
     maxRetries |-> 0, attempt |-> 0, lastError |-> "null", results |-> <<>>,
     waits |-> <<>>, thrown |-> FALSE, result |-> <<>>]

\* A client that has sent nothing and is sending nothing.
NoMail ==
    /\ defaultFrom = DefaultFrom
    /\ transporter = <<>>
    /\ task = NoTask
    /\ instances = <<>>
    /\ heap = <<>>

NoCall ==
    [op |-> "none", name |-> <<>>, lang |-> <<>>, ok |-> FALSE, value |-> NoValue,
     err |-> NoErr, src |-> "none", key |-> <<>>, fs |-> <<>>, fresh |-> TRUE,
     again |-> FALSE, tpl |-> <<>>, segs |-> <<>>, vars |-> NoOptions,
     warn |-> <<>>, subject |-> NoValue,
     \* the strictMode option the object was constructed with: no
     \* constructor reads it
     strictMode |-> FALSE,
     \* the options.defaults the object was constructed with
     opts |-> NoOptions,
     \* the object the call was made on, where there are two
     on |-> 0]

\* What is still known of the latest load or compileTemplate once the files have changed under
\* it: the call, its result and the key that gave it, not the file system
\* calls it made.
Stale(call) ==
    IF call.op \notin {"load", "compileTemplate"} THEN call
    ELSE [NoCall EXCEPT !.op = call.op, !.name = call.name, !.lang = call.lang,
                        !.ok = call.ok, !.value = call.value, !.err = call.err,
                        !.key = call.key, !.fresh = FALSE, !.on = call.on]

Init ==
    /\ defaultLang \in DefaultLangs
    /\ memoryTemplates = EmptyMap
    /\ cache = EmptyMap
    /\ disk = [p \in AllFiles |-> NoValue]
    /\ NoMail
    /\ defaults = EngineDefaults(NoOptions)
    /\ subjects = EmptyMap
    /\ last = NoCall

\* registerTemplateString(templateName, templateString, lang)
RegisterTemplateString(templateName, templateString, lang) ==
    /\ \/ Key(lang, templateName) \in DOMAIN memoryTemplates
       \/ Cardinality(DOMAIN memoryTemplates) < MaxMem
    /\ memoryTemplates' = MapSet(memoryTemplates, Key(lang, templateName), templateString)
    /\ last' = [NoCall EXCEPT !.op = "register"]
    /\ UNCHANGED <<mailVars, defaultLang, defaults, subjects, cache, disk>>

\* clearCache()
ClearCache ==
    /\ cache' = EmptyMap
    /\ last' = [NoCall EXCEPT !.op = "clearCache"]
    /\ UNCHANGED <<mailVars, defaultLang, defaults, subjects, memoryTemplates, disk>>

\* load(templateName, lang): returns the body or throws "Template not found".
Load(templateName, lang) ==
    \E r \in {load(templateName, lang)} :
    /\ cache' = r.cache
    /\ last' = [NoCall EXCEPT
                !.op = "load", !.name = templateName, !.lang = lang,
                !.ok = r.found, !.value = r.value,
                !.err = IF r.found THEN NoErr
                        ELSE [kind |-> "TemplateNotFound", name |-> templateName,
                              lang |-> lang],
                !.src = r.src, !.key = r.key, !.fs = r.fs,
                \* a repeat of the load before it, the files changed between
                !.again = /\ last.op = "load" /\ ~last.fresh /\ last.ok
                          /\ last.name = templateName /\ last.lang = lang]
    /\ UNCHANGED <<mailVars, defaultLang, defaults, subjects, memoryTemplates, disk>>

\* The environment creates, replaces, removes or makes unreadable a file.
DiskWrite(p, c) ==
    /\ disk[p] # c
    /\ \/ disk[p] # NoValue
       \/ Cardinality({q \in DOMAIN disk : disk[q] # NoValue}) < MaxFiles
    /\ disk' = [disk EXCEPT ![p] = c]
    /\ last' = Stale(last)
    /\ UNCHANGED <<mailVars, defaultLang, defaults, subjects, memoryTemplates, cache>>

\* The engine with one safe template name, in three languages.
Next ==
    \/ \E n \in Names, b \in MemBodies, l \in Langs : RegisterTemplateString(n, b, l)
    \/ ClearCache
    \/ \E n \in Names, l \in Langs : Load(n, l)
    \/ \E p \in DiskFiles, c \in DiskBodies \cup {NoValue} : DiskWrite(p, c)

Spec == Init /\ [][Next]_vars

\* The engine with safe and unsafe template names, and unreadable files.
NextNames ==
    \/ \E n \in AllNames, b \in MemBodies, l \in ShortLangs :
          RegisterTemplateString(n, b, l)
    \/ ClearCache
    \/ \E n \in AllNames, l \in ShortLangs : Load(n, l)
    \/ \E p \in {JoinPath(L_enEN, N_w), JoinPath(L_frFR, N_w)},
          c \in {<<"D1">>, NoValue, Unreadable} : DiskWrite(p, c)

SpecNames == Init /\ [][NextNames]_vars

----------------------------------------------------------------------------
(* TemplateEngine.replaceVariables on its own *)

\* A template is drawn as a sequence of pieces: texts with no "}" in them,
\* and placeholders.
Text(s) == [kind |-> "text", s |-> s]
Place(key) == [kind |-> "var", s |-> key]

Pieces ==
    {Text(<<"h", "<">>), Text(<<"&", "'", "{">>), Text(<<"\"", ">">>),
     Place(K_X), Place(K_Y), Place(K_APP_NAME)}

RECURSIVE SeqsUpTo(_, _)
\* The sequences of at most n elements of S.
SeqsUpTo(S, n) ==
    IF n = 0 THEN {<<>>}
    ELSE LET shorter == SeqsUpTo(S, n - 1) IN
         shorter \cup {Append(q, x) : q \in shorter, x \in S}

RECURSIVE Flatten(_)
\* The template string that the pieces spell.
Flatten(segs) ==
    IF segs = <<>> THEN <<>>
    ELSE (IF Head(segs).kind = "text" THEN Head(segs).s
          ELSE <<"{", "{">> \o Head(segs).s \o <<"}", "}">>)
         \o Flatten(Tail(segs))

\* The variable bags a caller passes.
VarBags ==
    {Merge(x, y) :
       x \in {NoOptions,
              K_X :> JsString(<<"<", "&", "a">>),
              K_X :> JsString(<<"'", "\"", ">">>),
              K_X :> JsZero,
              K_X :> JsFalse,
              K_X :> JsString(<<>>),
              K_X :> JsNull},
       y \in {NoOptions,
              K_Y :> JsString(<<"b">>),
              K_APP_NAME :> JsString(<<"A", "&", "B">>),
              K_APP_NAME :> JsUndefined}}

\* The options.defaults an engine is constructed with.
OptionDefaults ==
    {NoOptions,
     K_SUPPORT_EMAIL :> JsString(<<"s@example.com">>),
     K_APPEALS_EMAIL :> JsString(<<"a@example.com">>),
     K_APP_NAME :> JsString(<<>>),
     K_Y :> JsString(<<"<", "y", ">">>)}

InitRender ==
    /\ defaultLang \in {L_en}
    /\ memoryTemplates = EmptyMap
    /\ cache = EmptyMap
    /\ disk = [p \in AllFiles |-> NoValue]
    /\ NoMail
    /\ subjects = EmptyMap
    \* the call about to be made, with its arguments
    /\ \E opts \in OptionDefaults, segs \in SeqsUpTo(Pieces, MaxSegs),
          variables \in VarBags, strict \in BOOLEAN :
          /\ defaults = EngineDefaults(opts)
          /\ last = [NoCall EXCEPT !.op = "calling", !.tpl = Flatten(segs),
                                   !.segs = segs, !.vars = variables,
                                   !.strictMode = strict, !.opts = opts]

\* replaceVariables(template, variables)
ReplaceVariables ==
    /\ last.op = "calling"
    /\ \E r \in {replaceVariables(last.tpl, last.vars)} :
          last' = [last EXCEPT !.op = "replaceVariables", !.ok = TRUE,
                               !.value = r.result, !.warn = r.warn]
    /\ UNCHANGED <<mailVars, defaultLang, defaults, subjects, memoryTemplates, cache, disk>>

NextRender == ReplaceVariables

SpecRender == InitRender /\ [][NextRender]_vars

\* The entities that the specification states for & < > " '.
StatedEntity(c) ==
    IF c = "&" THEN <<"&", "a", "m", "p", ";">>
    ELSE IF c = "<" THEN <<"&", "l", "t", ";">>
    ELSE IF c = ">" THEN <<"&", "g", "t", ";">>
    ELSE IF c = "\"" THEN <<"&", "q", "u", "o", "t", ";">>
    ELSE IF c = "'" THEN <<"&", "#", "3", "9", ";">>
    ELSE <<c>>

RECURSIVE StatedEscape(_)
StatedEscape(s) ==
    IF s = <<>> THEN <<>> ELSE StatedEntity(Head(s)) \o StatedEscape(Tail(s))

RECURSIVE StatedOutput(_, _)
\* The output the specification states: texts copied, each placeholder
\* replaced by its escaped value, or by nothing when it has none.
StatedOutput(segs, data) ==
    IF segs = <<>> THEN <<>>
    ELSE (IF Head(segs).kind = "text" THEN Head(segs).s
          ELSE IF IsNullish(Get(data, Head(segs).s)) THEN <<>>
          ELSE StatedEscape(Get(data, Head(segs).s).str))
         \o StatedOutput(Tail(segs), data)

\* C6: replaceVariables replaces & < > " ' in every substituted value by
\* their entities, and copies the text outside placeholders unchanged.
C6_Escaping ==
    last.op = "replaceVariables"
    => last.value = StatedOutput(last.segs, Merge(defaults, last.vars))

\* A template with markup of its own, rendered with a value that holds each
\* of the five characters.
C6_Witness ==
    /\ last.op = "replaceVariables"
    /\ last.segs = <<Text(<<"h", "<">>), Place(K_X), Text(<<"\"", ">">>)>>
    /\ Get(last.vars, K_X) = JsString(<<"'", "\"", ">">>)
    /\ last.value = <<"h", "<", "&", "#", "3", "9", ";",
                      "&", "q", "u", "o", "t", ";", "&", "g", "t", ";", "\"", ">">>

----------------------------------------------------------------------------
(* Properties of TemplateEngine.load *)

\* The call that `last` records is a load whose result still describes the
\* files as they are.
FreshLoad == last.op = "load" /\ last.fresh

\* Some cached or disk template of that name is present.
StoredElsewhere(templateName) ==
    \/ \E d \in DiskDirs : existsSync(JoinPath(d, templateName))
    \/ \E d \in DiskDirs \cup Langs : Key(d, templateName) \in DOMAIN cache

\* C1: when an in-memory registration exists for (lang, name) and a cached
\* or disk template of that name is present too, load(name, lang) returns
\* the registered body.
C1_MemoryPrecedence ==
    (/\ FreshLoad
     /\ Key(last.lang, last.name) \in DOMAIN memoryTemplates
     /\ StoredElsewhere(last.name))
    => (last.ok /\ last.value = memoryTemplates[Key(last.lang, last.name)])

\* The keys load searches, in order: the requested language's candidates,
\* then the default language's.
SearchedKeys(templateName, lang) ==
    LET cands == getLangCandidates(lang) \o getLangCandidates(defaultLang) IN
    [i \in 1..Len(cands) |-> Key(cands[i], templateName)]

\* The place of the first occurrence of key k in the sequence ks (0: none).
FirstIndex(ks, k) ==
    IF \E i \in 1..Len(ks) : ks[i] = k
    THEN CHOOSE i \in 1..Len(ks) : ks[i] = k /\ \A j \in 1..(i - 1) : ks[j] # k
    ELSE 0

\* C2 as stated: load never returns a cached or disk body while a memory
\* registration exists under any key it searches.
C2_MemoryOverWholeSearch ==
    (FreshLoad /\ last.ok /\ last.src \in {"cache", "disk"})
    => LET ks == SearchedKeys(last.name, last.lang) IN
       \A i \in 1..Len(ks) : ks[i] \notin DOMAIN memoryTemplates

\* C2 as amended: load never returns a cached or disk body of a candidate
\* key while a memory registration exists under that key or under a key
\* searched before it.
C2_MemoryBeforeHit ==
    (FreshLoad /\ last.ok /\ last.src \in {"cache", "disk"})
    => LET ks == SearchedKeys(last.name, last.lang)
           hit == FirstIndex(ks, last.key)
       IN  /\ hit > 0
           /\ \A i \in 1..hit : ks[i] \notin DOMAIN memoryTemplates

\* The memory map was registered, and a load passed it by: the body came
\* from the cache or the disk of a candidate searched before the registered
\* key.
C2_Witness ==
    /\ FreshLoad /\ last.ok /\ last.src \in {"cache", "disk"}
    /\ \E i \in 1..Len(SearchedKeys(last.name, last.lang)) :
          SearchedKeys(last.name, last.lang)[i] \in DOMAIN memoryTemplates

\* A candidate directory has an entry for the name: in memory, in the cache,
\* or as a readable file.
HasEntry(candidate, templateName) ==
    \/ Key(candidate, templateName) \in DOMAIN memoryTemplates
    \/ Key(candidate, templateName) \in DOMAIN cache
    \/ /\ existsSync(JoinPath(candidate, templateName))
       /\ disk[JoinPath(candidate, templateName)] # Unreadable

EntryBody(candidate, templateName) ==
    LET key == Key(candidate, templateName) IN
    IF key \in DOMAIN memoryTemplates THEN memoryTemplates[key]
    ELSE IF key \in DOMAIN cache THEN cache[key]
    ELSE disk[JoinPath(candidate, templateName)]

\* The order of search that the specification states for a language tag.
StatedCandidates(lang) ==
    LET tag == ToLowerCase(lang) IN
    IF tag = L_en THEN <<L_en, L_enEN, L_enUS>>
    ELSE IF tag = L_fr THEN <<L_fr, L_frFR>>
    ELSE <<tag>>

StatedOrder(lang) == StatedCandidates(lang) \o StatedCandidates(defaultLang)

\* C8: load returns the body of the first candidate, in the stated order,
\* that has an entry.
C8_FallbackOrder ==
    FreshLoad
    => LET order == StatedOrder(last.lang)
           have == {i \in 1..Len(order) : HasEntry(order[i], last.name)}
       IN  have # {}
           => LET first == CHOOSE i \in have : \A j \in have : i <= j IN
              /\ last.ok
              /\ last.value = EntryBody(order[first], last.name)

\* With defaultLang "en", a template that exists only under en-EN is
\* returned for lang "en", and one under en-US too is passed by.
C8_Witness ==
    /\ defaultLang = L_en
    /\ FreshLoad /\ last.lang = L_en /\ last.ok
    /\ memoryTemplates = EmptyMap
    /\ ~existsSync(JoinPath(L_en, last.name))
    /\ existsSync(JoinPath(L_enEN, last.name))
    /\ existsSync(JoinPath(L_enUS, last.name))
    /\ disk[JoinPath(L_enUS, last.name)] # disk[JoinPath(L_enEN, last.name)]
    /\ last.value = disk[JoinPath(L_enEN, last.name)]

EarlierFile ==
    LET cands == getLangCandidates(last.lang) \o getLangCandidates(defaultLang)
        hit == FirstIndex(SearchedKeys(last.name, last.lang), last.key)
    IN  \E i \in 1..(hit - 1) :
           /\ ~InvalidTemplateName(last.name)
           /\ existsSync(JoinPath(cands[i], last.name))
           /\ disk[JoinPath(cands[i], last.name)] # Unreadable

C11_SecondLoadNoIo ==
    [][(/\ last.op = "load" /\ last.ok
        /\ last'.op = "load"
        /\ last'.name = last.name /\ last'.lang = last.lang)
       => last'.fs = <<>>]_vars

\* C12: load fails exactly when no candidate of the requested language and
\* none of the default language has an entry for the name, and the error
\* then names the template and the language as requested.
C12_NotFoundExactly ==
    FreshLoad
    => LET order == StatedOrder(last.lang) IN
       /\ ~last.ok <=> \A i \in 1..Len(order) : ~HasEntry(order[i], last.name)
       /\ ~last.ok => last.err = [kind |-> "TemplateNotFound",
                                  name |-> last.name, lang |-> last.lang]

\* A load failed for a language tag in upper case while a file of that name
\* stood in a directory that is no candidate of the search.
C12_Witness ==
    /\ FreshLoad /\ ~last.ok
    /\ last.lang = L_frFR /\ defaultLang = L_fr
    /\ last.err.lang = L_frFR
    /\ existsSync(JoinPath(L_enEN, last.name))
    /\ last.fs # <<>>

----------------------------------------------------------------------------
(* Properties of the validation of template names *)

\* A template name that is empty, holds a "/", or holds "..".
UnsafeName(n) ==
    \/ Len(n) = 0
    \/ \E i \in 1..Len(n) : n[i] = "/"
    \/ \E i \in 1..(Len(n) - 1) : n[i] = "." /\ n[i + 1] = "."

\* C3: load of an unsafe name fails with the invalid-template-name error,
\* and never returns a body.
C3_UnsafeNameRejected ==
    (last.op = "load" /\ UnsafeName(last.name))
    => (~last.ok /\ last.err.kind = "InvalidTemplateName")

\* C4: load of an unsafe name makes no file system call.
C4_UnsafeNameNoFs ==
    (FreshLoad /\ UnsafeName(last.name)) => last.fs = <<>>

\* An unsafe name was loaded while template files existed and both loops
\* ran to their end.
C4_Witness ==
    /\ FreshLoad /\ UnsafeName(last.name) /\ ~last.ok
    /\ Includes(last.name, <<"/">>)
    /\ \E p \in DOMAIN disk : existsSync(p)

----------------------------------------------------------------------------
(* EmailClient: compileTemplate. In SpecClient the variables defaultLang,   *)
(* memoryTemplates, cache and defaults are the fields of an EmailClient.    *)

\* EmailClient.#readTemplateFromDiskSync
clientReadTemplateFromDiskSync(templateName, lang) ==
    LET filePath == JoinPath(lang, templateName) IN
    IF ~existsSync(filePath)
    THEN [ok |-> FALSE, value |-> NoValue,
          fs |-> <<[op |-> "exists", path |-> filePath]>>]
    ELSE IF disk[filePath] = Unreadable
    THEN [ok |-> FALSE, value |-> NoValue,
          fs |-> <<[op |-> "exists", path |-> filePath],
                   [op |-> "read", path |-> filePath]>>]
    ELSE [ok |-> TRUE, value |-> disk[filePath],
          fs |-> <<[op |-> "exists", path |-> filePath],
                   [op |-> "read", path |-> filePath]>>]

\* EmailClient.#loadTemplate
loadTemplate(templateName, lang) ==
    LET key == Key(lang, templateName) IN
    IF key \in DOMAIN memoryTemplates
    THEN [found |-> TRUE, value |-> memoryTemplates[key], src |-> "memory",
          key |-> key, cache |-> cache, fs |-> <<>>]
    ELSE IF key \in DOMAIN cache
    THEN [found |-> TRUE, value |-> cache[key], src |-> "cache",
          key |-> key, cache |-> cache, fs |-> <<>>]
    ELSE LET r == clientReadTemplateFromDiskSync(templateName, lang) IN
         IF r.ok
         THEN [found |-> TRUE, value |-> r.value, src |-> "disk",
               key |-> key, cache |-> MapSet(cache, key, r.value), fs |-> r.fs]
         ELSE [found |-> FALSE, value |-> NoValue, src |-> "none",
               key |-> <<>>, cache |-> cache, fs |-> r.fs]

RECURSIVE FindClose(_, _)
\* The place of the first "}}" of s at or after place j that .*? can reach
\* (0: none; "." matches no line break).
FindClose(s, j) ==
    IF j + 1 > Len(s) THEN 0
    ELSE IF s[j] = "}" /\ s[j + 1] = "}" THEN j
    ELSE IF s[j] = "\n" THEN 0
    ELSE FindClose(s, j + 1)

\* /{{(.*?)}}/ at the head of s: the length of the match (0: none) and the key.
clientMatchPlaceholder(s) ==
    IF Len(s) >= 4 /\ s[1] = "{" /\ s[2] = "{"
    THEN LET j == FindClose(s, 3) IN
         IF j > 0 THEN [len |-> j + 1, key |-> SubSeq(s, 3, j - 1)]
         ELSE [len |-> 0, key |-> <<>>]
    ELSE [len |-> 0, key |-> <<>>]

RECURSIVE clientScanTemplate(_, _, _, _)
\* template.replace(/{{(.*?)}}/g, callback): the value goes in as it is.
clientScanTemplate(s, data, out, missing) ==
    IF s = <<>> THEN [result |-> out, missing |-> missing]
    ELSE LET m == clientMatchPlaceholder(s) IN
         IF m.len = 0
         THEN clientScanTemplate(Tail(s), data, Append(out, Head(s)), missing)
         ELSE IF IsNullish(Get(data, m.key))
         THEN clientScanTemplate(SubSeq(s, m.len + 1, Len(s)), data, out,
                                 Append(missing, m.key))
         ELSE clientScanTemplate(SubSeq(s, m.len + 1, Len(s)), data,
                                 out \o Get(data, m.key).str, missing)

\* EmailClient.#replaceVariables
clientReplaceVariables(template, variables) ==
    LET r == clientScanTemplate(template, Merge(defaults, variables), <<>>, <<>>) IN
    [result |-> r.result,
     missing |-> r.missing,
     warn |-> IF r.missing # <<>> THEN <<r.missing>> ELSE <<>>]

\* The arguments of the client's calls.
ClientNames == {N_w, N_up, N_empty}
ClientLangs == {L_fr, L_frFR}
ClientMemBodies == {<<"h", "{", "{", "X", "}", "}">>}
ClientDiskBodies == {<<"{", "{", "APP_NAME", "}", "}", "{", "{", "X", "}", "}">>}
ClientVarBags == {NoOptions, K_X :> JsString(<<"<", "&", "a">>), K_X :> JsZero}
ClientFiles == {JoinPath(L_frFR, N_w), OutsideFile}

InitClient ==
    /\ defaultLang \in {L_en}
    /\ memoryTemplates = EmptyMap
    /\ cache = EmptyMap
    /\ disk = [p \in AllFiles |-> NoValue]
    /\ NoMail
    /\ defaults = ClientDefaults(NoOptions)
    /\ subjects = EmptyMap
    /\ last = NoCall

\* EmailClient.registerTemplateString(templateName, templateString, lang)
ClientRegisterTemplateString(templateName, templateString, lang) ==
    /\ \/ Key(lang, templateName) \in DOMAIN memoryTemplates
       \/ Cardinality(DOMAIN memoryTemplates) < MaxMem
    /\ memoryTemplates' = MapSet(memoryTemplates, Key(lang, templateName), templateString)
    /\ last' = [NoCall EXCEPT !.op = "register"]
    /\ UNCHANGED <<mailVars, defaultLang, defaults, subjects, cache, disk>>

\* EmailClient.clearCache()
ClientClearCache ==
    /\ cache' = EmptyMap
    /\ last' = [NoCall EXCEPT !.op = "clearCache"]
    /\ UNCHANGED <<mailVars, defaultLang, defaults, subjects, memoryTemplates, disk>>

\* EmailClient.compileTemplate(templateName, { lang, variables }): the html, or
\* the error of #loadTemplate. compileMail returns this html beside the subject.
CompileTemplate(templateName, lang, variables) ==
    \E r \in {loadTemplate(templateName, lang)} :
    /\ cache' = r.cache
    /\ last' = [NoCall EXCEPT
                !.op = "compileTemplate", !.name = templateName, !.lang = lang,
                !.vars = variables, !.ok = r.found,
                !.tpl = IF r.found THEN r.value ELSE <<>>,
                !.value = IF r.found
                          THEN clientReplaceVariables(r.value, variables).result
                          ELSE NoValue,
                !.warn = IF r.found
                         THEN clientReplaceVariables(r.value, variables).warn
                         ELSE <<>>,
                !.err = IF r.found THEN NoErr
                        ELSE [kind |-> "TemplateNotFound", name |-> templateName,
                              lang |-> lang],
                !.src = r.src, !.key = r.key, !.fs = r.fs]
    /\ UNCHANGED <<mailVars, defaultLang, defaults, subjects, memoryTemplates, disk>>

\* client.clearTemplateCache(templateName, lang): the class has no such
\* method (only types.d.ts declares it), so the call throws a TypeError and
\* changes nothing.
ClearTemplateCache(templateName, lang) ==
    /\ last' = [NoCall EXCEPT
                !.op = "clearTemplateCache", !.name = templateName, !.lang = lang,
                !.ok = FALSE,
                !.err = [kind |-> "TypeError", name |-> templateName, lang |-> lang]]
    /\ UNCHANGED <<mailVars, defaultLang, defaults, subjects, memoryTemplates, cache, disk>>

NextClient ==
    \/ \E b \in ClientMemBodies, l \in ClientLangs :
          ClientRegisterTemplateString(N_w, b, l)
    \/ ClientClearCache
    \/ \E n \in ClientNames, l \in ClientLangs, v \in ClientVarBags :
          CompileTemplate(n, l, v)
    \/ \E l \in ClientLangs : ClearTemplateCache(N_w, l)
    \/ \E p \in ClientFiles, c \in ClientDiskBodies \cup {NoValue, Unreadable} :
          DiskWrite(p, c)

SpecClient == InitClient /\ [][NextClient]_vars

\* The latest call is a compileTemplate whose result still describes the
\* files as they are.
FreshCompile == last.op = "compileTemplate" /\ last.fresh

\* C5: compileTemplate of a name that is empty or climbs with "../" throws,
\* and reads no file outside <templatesPath>/<lang>/.
C5_ClientRejectsTraversal ==
    (FreshCompile /\ (last.name = <<>> \/ Includes(last.name, <<".", ".", "/">>)))
    => /\ ~last.ok
       /\ \A i \in 1..Len(last.fs) :
             last.fs[i].op = "read"
             => (Len(last.fs[i].path) = 2 /\ last.fs[i].path[1] = last.lang)

\* An entity of the escape starts at place i of s.
EntityAt(s, i) ==
    \E e \in {StatedEntity(c) : c \in {"&", "<", ">", "\"", "'"}} :
       i + Len(e) - 1 <= Len(s) /\ SubSeq(s, i, i + Len(e) - 1) = e

\* No raw < > " ' in s, and every & starts an entity.
NoRawMarkup(s) ==
    \A i \in 1..Len(s) :
       /\ s[i] \notin {"<", ">", "\"", "'"}
       /\ s[i] = "&" => EntityAt(s, i)

\* C7: the html of compileTemplate holds no raw < > & " ' of a variable
\* value (the templates themselves hold none of these characters).
C7_ClientEscapes ==
    (FreshCompile /\ last.ok /\ NoRawMarkup(last.tpl)) => NoRawMarkup(last.value)

\* The directories the template engine searches for a language.
FallbackDirs(lang) == StatedCandidates(lang) \o StatedCandidates(defaultLang)

\* C9: compileTemplate finds a template whose file stands in a fallback
\* candidate directory of the requested language, or of the default language.
C9_ClientFallback ==
    (/\ FreshCompile
     /\ \E i \in 1..Len(FallbackDirs(last.lang)) :
           /\ existsSync(JoinPath(FallbackDirs(last.lang)[i], last.name))
           /\ disk[JoinPath(FallbackDirs(last.lang)[i], last.name)] # Unreadable)
    => last.ok

----------------------------------------------------------------------------
(* Properties of the stores *)

\* The step is a call of load or of compileTemplate.
LoadStep == last'.op \in {"load", "compileTemplate"} /\ last'.fresh

\* The latest call read the file at path p, as its last file system call.
LastRead(call, p) ==
    /\ call.fs # <<>>
    /\ call.fs[Len(call.fs)] = [op |-> "read", path |-> p]

\* C13: a load (or compileTemplate) that throws leaves the cache and the
\* memory map as they were, and a cache entry is only ever created by a
\* call that succeeds, from the content of the file it read.
C13_FailedLoadKeepsStores ==
    [][LoadStep
       => /\ memoryTemplates' = memoryTemplates
          /\ ~last'.ok => cache' = cache
          /\ \A k \in DOMAIN cache : k \in DOMAIN cache' /\ cache'[k] = cache[k]
          /\ \A k \in DOMAIN cache' \ DOMAIN cache :
                /\ last'.ok /\ last'.key = k
                /\ \E p \in DOMAIN disk :
                      /\ LastRead(last', p)
                      /\ disk[p] \notin {NoValue, Unreadable}
                      /\ cache'[k] = disk[p]]_vars

\* A load failed after a read that threw, while the cache held the entry of
\* an earlier load.
C13_Witness ==
    /\ FreshLoad /\ ~last.ok
    /\ \E i \in 1..Len(last.fs) :
          last.fs[i].op = "read" /\ disk[last.fs[i].path] = Unreadable
    /\ cache # EmptyMap

----------------------------------------------------------------------------
(* Properties of clearCache *)

\* The step is a call of clearCache: it empties the cache and keeps the
\* memory map.
ClearCacheDropsCache ==
    (last'.op = "clearCache" /\ last' # last)
    => (cache' = EmptyMap /\ memoryTemplates' = memoryTemplates)

\* The step is the first load after a clearCache.
LoadAfterClear == last.op = "clearCache" /\ last'.op = "load"

\* The places, in the stated order of search, of the candidates that have a
\* readable file for the name.
ReadablePlaces(templateName, lang) ==
    {i \in 1..Len(StatedOrder(lang)) :
        /\ existsSync(JoinPath(StatedOrder(lang)[i], templateName))
        /\ disk[JoinPath(StatedOrder(lang)[i], templateName)] # Unreadable}

\* The first load after a clearCache of a template that only the disk backs
\* reads its file again and returns what the file holds now.
ReloadReadsDisk ==
    (/\ LoadAfterClear
     /\ \A i \in 1..Len(StatedOrder(last'.lang)) :
           Key(StatedOrder(last'.lang)[i], last'.name) \notin DOMAIN memoryTemplates
     /\ ReadablePlaces(last'.name, last'.lang) # {})
    => LET have == ReadablePlaces(last'.name, last'.lang)
           first == CHOOSE i \in have : \A j \in have : i <= j
           p == JoinPath(StatedOrder(last'.lang)[first], last'.name)
       IN  /\ last'.ok /\ last'.value = disk[p]
           /\ LastRead(last', p)

\* The first load after a clearCache of a registered (name, lang) returns the
\* registered body.
ReloadKeepsMemory ==
    (LoadAfterClear /\ Key(last'.lang, last'.name) \in DOMAIN memoryTemplates)
    => (last'.ok /\ last'.value = memoryTemplates[Key(last'.lang, last'.name)])

\* C14: clearCache removes every cache entry and keeps the registrations;
\* the next load of a disk-backed template reads the file again and returns
\* its present content, and the next load of a registered key returns the
\* registered body.
C14_ClearCache ==
    [][ClearCacheDropsCache /\ ReloadReadsDisk /\ ReloadKeepsMemory]_vars

\* C15: clearTemplateCache(name, lang) drops the cache entry of that
\* (name, lang) and nothing else, keeps the registrations, and the next
\* compileTemplate(name, lang) of a disk-backed template renders what its
\* file holds then.
C15_ClearTemplateCache ==
    [][/\ (last'.op = "clearTemplateCache" /\ last' # last)
          => /\ last'.ok
             /\ Key(last'.lang, last'.name) \notin DOMAIN cache'
             /\ \A k \in DOMAIN cache \ {Key(last'.lang, last'.name)} :
                   k \in DOMAIN cache' /\ cache'[k] = cache[k]
             /\ memoryTemplates' = memoryTemplates
       /\ (/\ last.op = "clearTemplateCache"
           /\ last'.op = "compileTemplate"
           /\ last'.name = last.name /\ last'.lang = last.lang
           /\ Key(last.lang, last.name) \notin DOMAIN memoryTemplates
           /\ existsSync(JoinPath(last.lang, last.name))
           /\ disk[JoinPath(last.lang, last.name)] # Unreadable)
          => (last'.ok /\ last'.tpl = disk[JoinPath(last.lang, last.name)])]_vars

----------------------------------------------------------------------------
(* Properties of the values substituted by replaceVariables *)

\* The call that `last` records is a replaceVariables, and the bag it
\* substituted from.
Replaced == last.op = "replaceVariables"
Effective == Merge(defaults, last.vars)

\* The keys of the placeholders of the template that have no value, in the
\* order of the template.
MissingKeys ==
    LET NoValueFor(piece) ==
            piece.kind = "var" /\ Get(Effective, piece.s).type \in {"null", "undefined"}
        sel == SelectSeq(last.segs, NoValueFor)
    IN  [i \in 1..Len(sel) |-> sel[i].s]

RECURSIVE StatedStrings(_, _)
\* The template with each placeholder replaced by the string form of its
\* value: "0" for 0, "false" for false, nothing for "", null and undefined.
StatedStrings(segs, data) ==
    IF segs = <<>> THEN <<>>
    ELSE LET v == Get(data, Head(segs).s) IN
         (IF Head(segs).kind = "text" THEN Head(segs).s
          ELSE IF v.type = "number" THEN <<"0">>
          ELSE IF v.type = "boolean" THEN <<"f", "a", "l", "s", "e">>
          ELSE IF v.type = "string" THEN StatedEscape(v.str)
          ELSE <<>>)
         \o StatedStrings(Tail(segs), data)

\* C16: a placeholder whose value is 0, false or "" is replaced by "0",
\* "false" or "" and is not warned as missing; only null and undefined are.
C16_FalsyPresent ==
    Replaced
    => /\ last.value = StatedStrings(last.segs, Effective)
       /\ \A i \in 1..Len(last.warn) : \A j \in 1..Len(last.warn[i]) :
             Get(Effective, last.warn[i][j]).type \in {"null", "undefined"}

\* 0 was substituted into "{{X}}h<" and gave "0h<" with no warning.
C16_Witness ==
    /\ Replaced
    /\ last.segs = <<Place(K_X), Text(<<"h", "<">>)>>
    /\ Get(last.vars, K_X) = JsZero
    /\ last.value = <<"0", "h", "<">>
    /\ last.warn = <<>>

\* C17: replaceVariables returns the string with every placeholder without a
\* value replaced by nothing, and prints one warning that lists the missing
\* keys when there is one, none otherwise.
C17_MissingWarnedOnce ==
    Replaced
    => /\ last.ok
       /\ last.value = StatedOutput(last.segs, Effective)
       /\ last.warn = IF MissingKeys = <<>> THEN <<>> ELSE <<MissingKeys>>

\* Two placeholders had no value (one null, one absent) and one warning
\* listed both.
C17_Witness ==
    /\ Replaced
    /\ last.segs = <<Place(K_X), Text(<<"h", "<">>), Place(K_Y)>>
    /\ Get(last.vars, K_X) = JsNull
    /\ K_Y \notin DOMAIN Effective
    /\ last.value = <<"h", "<">>
    /\ last.warn = <<<<K_X, K_Y>>>>

\* C18: with the strictMode option, replacing the variables of a template
\* that has a placeholder without a value fails with a missing-variable
\* error and returns no string.
C18_StrictModeThrows ==
    (Replaced /\ last.strictMode /\ MissingKeys # <<>>)
    => (~last.ok /\ last.err.kind = "MissingVariable" /\ last.value = NoValue)

\* The value the specification states for a key: the caller's when the
\* caller's bag has the key, the default otherwise.
StatedValue(key) ==
    IF key \in DOMAIN last.vars THEN last.vars[key]
    ELSE IF key \in DOMAIN defaults THEN defaults[key]
    ELSE JsUndefined

\* The bag made of the stated values.
StatedBag == [k \in DOMAIN last.vars \cup DOMAIN defaults |-> StatedValue(k)]

\* C19: replaceVariables substitutes the caller's value for a key that both
\* the defaults and the caller's variables have, and the default value for a
\* key that only the defaults have.
C19_CallerWins ==
    Replaced => last.value = StatedOutput(last.segs, StatedBag)

\* APP_NAME came from the caller over its default, Y from the defaults.
C19_Witness ==
    /\ Replaced
    /\ last.segs = <<Place(K_APP_NAME), Place(K_Y)>>
    /\ K_APP_NAME \in DOMAIN defaults
    /\ Get(last.vars, K_APP_NAME) = JsString(<<"A", "&", "B">>)
    /\ K_Y \notin DOMAIN last.vars
    /\ Get(defaults, K_Y) = JsString(<<"<", "y", ">">>)
    /\ last.value = <<"A", "&", "a", "m", "p", ";", "B", "&", "l", "t", ";", "y", "&", "g", "t", ";">>

----------------------------------------------------------------------------
(* EmailClient: subjects *)

ToUpperChar(c) ==
    CASE c = "a" -> "A"
      [] c = "b" -> "B"
      [] c = "c" -> "C"
      [] c = "w" -> "W"
      [] OTHER -> c

RECURSIVE DropSeparators(_)
\* s without the separators it starts with.
DropSeparators(s) ==
    IF s # <<>> /\ Head(s) \in {"-", "_"} THEN DropSeparators(Tail(s)) ELSE s

RECURSIVE ReplaceSeparators(_)
\* .replace(/[-_]+/g, " ")
ReplaceSeparators(s) ==
    IF s = <<>> THEN <<>>
    ELSE IF Head(s) \in {"-", "_"} THEN <<" ">> \o ReplaceSeparators(DropSeparators(s))
    ELSE <<Head(s)>> \o ReplaceSeparators(Tail(s))

RECURSIVE Trim(_)
\* .trim()
Trim(s) ==
    IF s = <<>> THEN <<>>
    ELSE IF Head(s) = " " THEN Trim(Tail(s))
    ELSE IF s[Len(s)] = " " THEN Trim(SubSeq(s, 1, Len(s) - 1))
    ELSE s

\* .replace(/(^|\s)\S/g, s => s.toUpperCase())
UpperFirsts(s) ==
    [i \in 1..Len(s) |->
        IF s[i] # " " /\ (i = 1 \/ s[i - 1] = " ") THEN ToUpperChar(s[i]) ELSE s[i]]

\* EmailClient.#humanize
humanize(id) == UpperFirsts(Trim(ReplaceSeparators(id)))

\* this.subjects.get(templateName) || {}
PerLang(templateName) ==
    IF templateName \in DOMAIN subjects THEN subjects[templateName] ELSE EmptyMap

\* perLang[lang]: the empty string stands for undefined too, both are falsy.
SubjectAt(perLang, lang) == IF lang \in DOMAIN perLang THEN perLang[lang] ELSE <<>>

\* getSubject without the subject of the default language.
getSubjectNoDefault(templateName, lang, variables) ==
    LET perLang == PerLang(templateName)
        subject == IF SubjectAt(perLang, lang) # <<>> THEN SubjectAt(perLang, lang)
                   ELSE humanize(templateName)
    IN  clientReplaceVariables(subject, variables).result

\* EmailClient.getSubject
getSubject(templateName, lang, variables) ==
    LET perLang == PerLang(templateName)
        subject == IF SubjectAt(perLang, lang) # <<>> THEN SubjectAt(perLang, lang)
                   ELSE IF SubjectAt(perLang, defaultLang) # <<>>
                   THEN SubjectAt(perLang, defaultLang)
                   ELSE humanize(templateName)
    IN  clientReplaceVariables(subject, variables).result

\* The number of subjects registered.
SubjectCount(subs) ==
    Cardinality({x \in (DOMAIN subs) \X {L_en, L_fr} : x[2] \in DOMAIN subs[x[1]]})

\* The arguments of the calls about subjects.
N_ab == <<"a", "-", "b">>
N_sep == <<"_", "a", "_", "-", "b", "c">>
SubjectNames == {N_w, N_ab, N_sep}
SubjectSegs == {<<>>, <<Text(<<"H", "i", " ">>), Place(K_X)>>, <<Text(<<"B", "o", "n">>)>>}
SubjectBodies == {Flatten(segs) : segs \in SubjectSegs}
SubjectMaps == {(L_en :> <<"B", "o", "n">>) @@ (L_fr :> <<>>)}

InitSubject ==
    /\ defaultLang \in {L_en, L_fr}
    /\ memoryTemplates = EmptyMap
    /\ cache = EmptyMap
    /\ disk = [p \in AllFiles |-> NoValue]
    /\ NoMail
    /\ defaults = ClientDefaults(NoOptions)
    \* options.subjects, copied entry by entry
    /\ subjects \in {EmptyMap, N_ab :> (L_en :> Flatten(<<Place(K_X)>>))}
    /\ last = NoCall

\* EmailClient.registerSubject(templateName, lang, subject)
RegisterSubject(templateName, lang, subject) ==
    /\ subjects' = MapSet(subjects, templateName,
                          MapSet(PerLang(templateName), lang, subject))
    /\ SubjectCount(subjects') <= MaxSubj
    /\ last' = [NoCall EXCEPT !.op = "registerSubject"]
    /\ UNCHANGED <<mailVars, defaultLang, defaults, memoryTemplates, cache, disk>>

\* EmailClient.registerSubjects(templateName, map)
RegisterSubjects(templateName, map) ==
    /\ subjects' = MapSet(subjects, templateName, Merge(PerLang(templateName), map))
    /\ SubjectCount(subjects') <= MaxSubj
    /\ last' = [NoCall EXCEPT !.op = "registerSubjects"]
    /\ UNCHANGED <<mailVars, defaultLang, defaults, memoryTemplates, cache, disk>>

\* EmailClient.getSubject(templateName, { lang, variables })
GetSubject(templateName, lang, variables) ==
    /\ last' = [NoCall EXCEPT
                !.op = "getSubject", !.name = templateName, !.lang = lang,
                !.vars = variables, !.ok = TRUE,
                !.subject = getSubject(templateName, lang, variables)]
    /\ UNCHANGED <<mailVars, defaultLang, defaults, subjects, memoryTemplates, cache, disk>>

\* EmailClient.compileMail(templateName, { lang, variables }): the html and
\* the subject, or the error of compileTemplate.
CompileMail(templateName, lang, variables) ==
    \E r \in {loadTemplate(templateName, lang)} :
    /\ cache' = r.cache
    /\ last' = [NoCall EXCEPT
                !.op = "compileMail", !.name = templateName, !.lang = lang,
                !.vars = variables, !.ok = r.found,
                !.tpl = IF r.found THEN r.value ELSE <<>>,
                !.value = IF r.found
                          THEN clientReplaceVariables(r.value, variables).result
                          ELSE NoValue,
                !.subject = IF r.found
                            THEN getSubject(templateName, lang, variables)
                            ELSE NoValue,
                !.err = IF r.found THEN NoErr
                        ELSE [kind |-> "TemplateNotFound", name |-> templateName,
                              lang |-> lang],
                !.src = r.src, !.key = r.key, !.fs = r.fs]
    /\ UNCHANGED <<mailVars, defaultLang, defaults, subjects, memoryTemplates, disk>>

NextSubject ==
    \/ \E n \in {N_w, N_ab}, l \in ShortLangs, b \in SubjectBodies :
          RegisterSubject(n, l, b)
    \/ \E m \in SubjectMaps : RegisterSubjects(N_w, m)
    \/ \E n \in SubjectNames, l \in ShortLangs, v \in ClientVarBags :
          GetSubject(n, l, v)
    \/ \E l \in ShortLangs : ClientRegisterTemplateString(N_w, <<"h">>, l)
    \/ \E l \in ShortLangs, v \in ClientVarBags : CompileMail(N_w, l, v)

SpecSubject == InitSubject /\ [][NextSubject]_vars

RECURSIVE Words(_, _, _)
\* The words of s: its longest runs of characters other than "-" and "_".
Words(s, cur, acc) ==
    IF s = <<>> THEN (IF cur = <<>> THEN acc ELSE Append(acc, cur))
    ELSE IF Head(s) \in {"-", "_"}
    THEN Words(Tail(s), <<>>, IF cur = <<>> THEN acc ELSE Append(acc, cur))
    ELSE Words(Tail(s), Append(cur, Head(s)), acc)

RECURSIVE JoinCapitalized(_)
\* The words, each with its first letter in upper case, with one space
\* between two of them.
JoinCapitalized(ws) ==
    IF ws = <<>> THEN <<>>
    ELSE <<ToUpperChar(Head(ws)[1])>> \o Tail(Head(ws))
         \o (IF Tail(ws) = <<>> THEN <<>> ELSE <<" ">> \o JoinCapitalized(Tail(ws)))

\* The humanized name that the specification states.
StatedHumanize(templateName) == JoinCapitalized(Words(templateName, <<>>, <<>>))

RECURSIVE StatedRaw(_, _)
\* The pieces with each placeholder replaced by its value as it is, or by
\* nothing when it has none.
StatedRaw(segs, data) ==
    IF segs = <<>> THEN <<>>
    ELSE (IF Head(segs).kind = "text" THEN Head(segs).s
          ELSE IF Get(data, Head(segs).s).type \in {"null", "undefined"} THEN <<>>
          ELSE Get(data, Head(segs).s).str)
         \o StatedRaw(Tail(segs), data)

\* The registered subject s with its placeholders substituted.
Substituted(s) ==
    LET segs == CHOOSE q \in SubjectSegs \cup {<<Place(K_X)>>} : Flatten(q) = s IN
    StatedRaw(segs, StatedBag)

\* A subject is registered for (name, lang).
Registered(templateName, lang) ==
    templateName \in DOMAIN subjects /\ lang \in DOMAIN subjects[templateName]

\* The latest call returned a subject.
GotSubject == last.op \in {"getSubject", "compileMail"} /\ last.ok

\* C20 as stated: the subject is the one registered for (name, lang) if
\* there is one, otherwise the one registered for (name, defaultLang),
\* otherwise the humanized name; its placeholders are substituted.
C20_SubjectResolution ==
    GotSubject
    => last.subject =
          IF Registered(last.name, last.lang)
          THEN Substituted(subjects[last.name][last.lang])
          ELSE IF Registered(last.name, defaultLang)
          THEN Substituted(subjects[last.name][defaultLang])
          ELSE StatedHumanize(last.name)

\* A subject that is not the empty string is registered for (name, lang).
RegisteredNonEmpty(templateName, lang) ==
    Registered(templateName, lang) /\ subjects[templateName][lang] # <<>>

\* C20 as amended: the subject is the non-empty one registered for
\* (name, lang) if there is one, otherwise the non-empty one registered for
\* (name, defaultLang), otherwise the humanized name; its placeholders are
\* substituted.
C20_NonEmptySubjectResolution ==
    GotSubject
    => last.subject =
          IF RegisteredNonEmpty(last.name, last.lang)
          THEN Substituted(subjects[last.name][last.lang])
          ELSE IF RegisteredNonEmpty(last.name, defaultLang)
          THEN Substituted(subjects[last.name][defaultLang])
          ELSE StatedHumanize(last.name)

\* compileMail took the subject of the default language, the requested
\* language having none but the empty string.
C20_Witness ==
    /\ last.op = "compileMail" /\ last.ok
    /\ last.lang # defaultLang
    /\ Registered(last.name, last.lang)
    /\ ~RegisteredNonEmpty(last.name, last.lang)
    /\ RegisteredNonEmpty(last.name, defaultLang)
    /\ last.subject = subjects[last.name][defaultLang]

----------------------------------------------------------------------------
(* EmailClient: send, sendMail, sendBulk, sendWithRetry *)

\* Bounds of the calls drawn.
MaxRetries == 4      \* the largest maxRetries passed to sendWithRetry
MaxRecipients == 3   \* the longest list passed to sendBulk

\* What transporter.sendMail settles with: it resolves, or rejects with one
\* of two errors.
Outcomes == {"ok", "E1", "E2"}

\* { from: this.defaultFrom, ...mailOptions }
sendOptions(mailOptions) == Merge("from" :> defaultFrom, mailOptions)

\* The fields sendMail takes from its argument.
MailFields == {"to", "subject", "html", "from", "cc", "bcc", "replyTo", "attachments"}

\* The object sendMail builds from its destructured argument: every field
\* is there, undefined when the argument does not hold it.
sendMailOptions(mailOptions) ==
    [f \in MailFields |-> IF f \in DOMAIN mailOptions THEN mailOptions[f] ELSE Undefined]

\* this.send({ ...mailOptions, to: recipient }) of sendBulk, and the same
\* with a `to` of mailOptions kept.
bulkOptionsKeepTo(mailOptions, recipient) == Merge("to" :> recipient, mailOptions)
bulkOptions(mailOptions, recipient) == Merge(mailOptions, "to" :> recipient)

\* One call of transporter.sendMail: the message handed over and how the
\* call settled.
Sent(options, outcome) == [options |-> options, settled |-> outcome]

\* The condition of the loop of sendWithRetry, and one that lets one more
\* attempt through.
retryLoopOneMore(attempt, maxRetries) == attempt <= maxRetries + 1
retryLoop(attempt, maxRetries) == attempt <= maxRetries

\* The failure sendWithRetry returns after its loop: the message holds
\* maxRetries and the last error; and one that holds the first attempt's
\* number instead.
retryFailureOne(maxRetries, lastError) ==
    [success |-> FALSE,
     error |-> [text |-> "Failure after", attempts |-> 1, last |-> lastError]]
retryFailure(maxRetries, lastError) ==
    [success |-> FALSE,
     error |-> [text |-> "Failure after", attempts |-> maxRetries, last |-> lastError]]

\* The result of send after the n-th call of the transporter resolved.
SuccessResult(n) == [success |-> TRUE, messageId |-> n, response |-> "OK"]

\* await new Promise(r => setTimeout(r, Math.pow(2, attempt) * 1000)): the
\* delay asked of the timer, in milliseconds.
backoffDelayFrom1(attempt) == (2 ^ (attempt - 1)) * 1000
backoffDelay(attempt) == (2 ^ attempt) * 1000

\* The mail options and recipients of the calls drawn.
MailBags ==
    {("to" :> "a@x.io") @@ ("subject" :> "s") @@ ("html" :> "h"),
     ("to" :> "a@x.io") @@ ("subject" :> "s") @@ ("html" :> "h") @@ ("from" :> "me@x.io"),
     ("to" :> "a@x.io") @@ ("subject" :> "s") @@ ("text" :> "t")}
BulkBags == {("subject" :> "s") @@ ("html" :> "h"), ("to" :> "z@x.io") @@ ("html" :> "h")}
Recipients == {"r1@x.io", "r2@x.io"}

\* The calls: send(m), sendMail(m), sendBulk(rs, m), sendWithRetry(m, n).
Calls ==
    {[NoTask EXCEPT !.op = o, !.pc = "run", !.mailOptions = m] :
        o \in {"send", "sendMail"}, m \in MailBags}
    \cup {[NoTask EXCEPT !.op = "sendBulk", !.pc = "run", !.mailOptions = m,
                         !.recipients = rs] :
            m \in BulkBags, rs \in SeqsUpTo(Recipients, MaxRecipients)}
    \cup {[NoTask EXCEPT !.op = "sendWithRetry", !.pc = "run", !.mailOptions = m,
                         !.maxRetries = n, !.attempt = 1] :
            m \in MailBags, n \in (-1)..MaxRetries}

InitSend ==
    /\ defaultLang = L_en
    /\ memoryTemplates = EmptyMap
    /\ cache = EmptyMap
    /\ disk = [p \in AllFiles |-> NoValue]
    /\ defaults = ClientDefaults(NoOptions)
    /\ subjects = EmptyMap
    /\ last = NoCall
    /\ defaultFrom = DefaultFrom
    /\ transporter = <<>>
    /\ instances = <<>>
    /\ heap = <<>>
    \* the call about to run, with its arguments
    /\ task \in Calls

engineVars ==
    <<defaultLang, memoryTemplates, cache, disk, defaults, subjects, instances, heap,
      last>>

\* EmailClient.send(mailOptions), and sendMail, which hands its own object
\* to send: the transporter settles, send returns or throws.
Send(outcome) ==
    /\ task.op \in {"send", "sendMail"} /\ task.pc = "run"
    /\ transporter' =
          Append(transporter,
                 Sent(sendOptions(IF task.op = "sendMail"
                                  THEN sendMailOptions(task.mailOptions)
                                  ELSE task.mailOptions), outcome))
    /\ task' = IF outcome = "ok"
               THEN [task EXCEPT !.pc = "done",
                                 !.result = SuccessResult(Len(transporter) + 1)]
               ELSE [task EXCEPT !.pc = "done", !.thrown = TRUE, !.lastError = outcome]
    /\ UNCHANGED <<engineVars, defaultFrom>>

\* One turn of the loop of sendBulk: the send to the next recipient.
SendBulkNext(outcome) ==
    /\ task.op = "sendBulk" /\ task.pc = "run"
    /\ Len(task.results) < Len(task.recipients)
    /\ LET recipient == task.recipients[Len(task.results) + 1] IN
       /\ transporter' =
             Append(transporter,
                    Sent(sendOptions(bulkOptions(task.mailOptions, recipient)), outcome))
       /\ task' = [task EXCEPT !.results =
                      Append(@, IF outcome = "ok"
                                THEN [recipient |-> recipient, success |-> TRUE,
                                      messageId |-> Len(transporter) + 1,
                                      error |-> "none"]
                                ELSE [recipient |-> recipient, success |-> FALSE,
                                      messageId |-> 0, error |-> outcome])]
    /\ UNCHANGED <<engineVars, defaultFrom>>

\* sendBulk returns its results.
SendBulkReturn ==
    /\ task.op = "sendBulk" /\ task.pc = "run"
    /\ Len(task.results) = Len(task.recipients)
    /\ task' = [task EXCEPT !.pc = "done", !.result = task.results]
    /\ UNCHANGED <<engineVars, defaultFrom, transporter>>

\* One attempt of sendWithRetry: it returns the result of a send that
\* succeeded; after one that threw it sets the timer when attempts remain.
RetryAttempt(outcome) ==
    /\ task.op = "sendWithRetry" /\ task.pc = "run"
    /\ retryLoop(task.attempt, task.maxRetries)
    /\ transporter' = Append(transporter, Sent(sendOptions(task.mailOptions), outcome))
    /\ task' = IF outcome = "ok"
               THEN [task EXCEPT !.pc = "done",
                                 !.result = SuccessResult(Len(transporter) + 1)]
               ELSE IF task.attempt < task.maxRetries
               THEN [task EXCEPT !.pc = "wait", !.lastError = outcome,
                                 !.waits = Append(@, [after |-> task.attempt,
                                                      ms |-> backoffDelay(task.attempt)])]
               ELSE [task EXCEPT !.lastError = outcome, !.attempt = @ + 1]
    /\ UNCHANGED <<engineVars, defaultFrom>>

\* The timer of sendWithRetry fires: the next attempt.
RetryWake ==
    /\ task.op = "sendWithRetry" /\ task.pc = "wait"
    /\ task' = [task EXCEPT !.pc = "run", !.attempt = @ + 1]
    /\ UNCHANGED <<engineVars, defaultFrom, transporter>>

\* sendWithRetry leaves its loop and returns the failure.
RetryReturn ==
    /\ task.op = "sendWithRetry" /\ task.pc = "run"
    /\ ~retryLoop(task.attempt, task.maxRetries)
    /\ task' = [task EXCEPT !.pc = "done",
                            !.result = retryFailure(task.maxRetries, task.lastError)]
    /\ UNCHANGED <<engineVars, defaultFrom, transporter>>

NextSend ==
    \/ \E outcome \in Outcomes : Send(outcome)
    \/ \E outcome \in Outcomes : SendBulkNext(outcome)
    \/ SendBulkReturn
    \/ \E outcome \in Outcomes : RetryAttempt(outcome)
    \/ RetryWake
    \/ RetryReturn

SpecSend == InitSend /\ [][NextSend]_vars

\* Every call of the transporter settles and every timer fires.
SpecSendFair == SpecSend /\ WF_vars(NextSend)

----------------------------------------------------------------------------
(* sendWithRetry, sendBulk, sendMail: properties *)

Retrying == task.op = "sendWithRetry"
Returned == task.pc = "done" /\ ~task.thrown
Failed(i) == transporter[i].settled # "ok"
AllFailed == \A i \in 1..Len(transporter) : Failed(i)

\* C21: sendWithRetry never throws, and when it has returned it holds a
\* result; when every attempt made (at least one) failed, the result is the
\* failure whose message holds the number of attempts made and the error of
\* the last one.
C21_RetryNeverThrows ==
    Retrying =>
        /\ ~task.thrown
        /\ task.pc = "done" =>
              /\ task.result.success \in BOOLEAN
              /\ (Len(transporter) >= 1 /\ AllFailed) =>
                    /\ task.result.success = FALSE
                    /\ task.result.error.attempts = Len(transporter)
                    /\ task.result.error.last = transporter[Len(transporter)].settled

C21_Witness ==
    /\ Retrying /\ Returned
    /\ Len(transporter) >= 2 /\ AllFailed
    /\ transporter[1].settled # transporter[Len(transporter)].settled
    /\ task.result.success = FALSE

AtMost(n) == IF n > 0 THEN n ELSE 0

\* C22: sendWithRetry calls the transporter at most maxRetries times, no
\* call follows one that succeeded, the result after a call that succeeded
\* is the success of that call, with maxRetries <= 0 no call is made and the
\* result is a failure, and it returns at last.
C22_RetryBounded ==
    /\ [](Retrying =>
            /\ Len(transporter) <= AtMost(task.maxRetries)
            /\ \A i \in 1..(Len(transporter) - 1) : Failed(i)
            /\ (Len(transporter) >= 1 /\ ~Failed(Len(transporter))) =>
                  /\ Returned
                  /\ task.result = SuccessResult(Len(transporter))
            /\ (task.pc = "done" /\ task.maxRetries <= 0) =>
                  /\ Len(transporter) = 0
                  /\ task.result.success = FALSE)
    /\ <>(Retrying => task.pc = "done")

C22_Witness ==
    /\ Retrying /\ Returned
    /\ Len(transporter) = 2 /\ task.maxRetries = MaxRetries
    /\ ~Failed(2)
    /\ task.result.success = TRUE

\* C23: sendBulk sends once per recipient, in the order of the list and
\* with `to` the recipient; its results are one per recipient in that order,
\* a failed send is recorded with its error and the later sends are made;
\* sendBulk does not throw.
C23_BulkOnePerRecipient ==
    task.op = "sendBulk" =>
        /\ ~task.thrown
        /\ Len(transporter) = Len(task.results)
        /\ Len(transporter) <= Len(task.recipients)
        /\ \A i \in 1..Len(transporter) :
              /\ Get(transporter[i].options, "to") = task.recipients[i]
              /\ task.results[i].recipient = task.recipients[i]
              /\ task.results[i].success = ~Failed(i)
              /\ Failed(i) => task.results[i].error = transporter[i].settled
        /\ task.pc = "done" =>
              /\ task.result = task.results
              /\ Len(task.result) = Len(task.recipients)

C23_Witness ==
    /\ task.op = "sendBulk" /\ Returned
    /\ Len(task.recipients) = MaxRecipients
    /\ "to" \in DOMAIN task.mailOptions
    /\ Failed(1) /\ ~Failed(2)
    /\ task.recipients[1] = task.recipients[3]

\* C24: sendMail hands the transporter the message that send hands it for
\* the same mail options: `from` is the defaultFrom of the client when the
\* options hold none and the caller's `from` otherwise.
C24_SendMailAlias ==
    (task.op \in {"send", "sendMail"} /\ task.pc = "done") =>
        /\ transporter[1].options = sendOptions(task.mailOptions)
        /\ Get(transporter[1].options, "from") =
              IF "from" \in DOMAIN task.mailOptions
              THEN task.mailOptions["from"] ELSE defaultFrom

RECURSIVE StatedDelay(_)
StatedDelay(k) == IF k <= 1 THEN 2000 ELSE 2 * StatedDelay(k - 1)

\* The failed attempts after which a further attempt remains.
FailedBeforeLast ==
    {i \in 1..Len(transporter) : Failed(i) /\ i < task.maxRetries}

\* C28: sendWithRetry asks the timer for 2^k seconds after its k-th attempt
\* failed when k < maxRetries, and for nothing else: not before the first
\* attempt, after an attempt that succeeded or after the last attempt.
C28_BackoffSchedule ==
    Retrying =>
        /\ Len(task.waits) = Cardinality(FailedBeforeLast)
        /\ \A k \in 1..Len(task.waits) :
              /\ k \in FailedBeforeLast
              /\ task.waits[k] = [after |-> k, ms |-> StatedDelay(k)]
        /\ task.pc = "wait" => Len(task.waits) = Len(transporter)

C28_Witness ==
    /\ Retrying /\ Returned
    /\ task.maxRetries = MaxRetries
    /\ Len(transporter) = MaxRetries /\ AllFailed
    /\ Len(task.waits) = MaxRetries - 1
    /\ task.waits[3].ms = 8000

----------------------------------------------------------------------------
(* The cache over time; the registration round trip *)

NoDiskTemplate(templateName) ==
    \A d \in DiskDirs : ~existsSync(JoinPath(d, templateName))

\* C27: after registerTemplateString(name, body, lang), with no disk
\* template of that name, load(name, lang) succeeds and returns body.
C27_RegisterRoundTrip ==
    (/\ FreshLoad
     /\ Key(last.lang, last.name) \in DOMAIN memoryTemplates
     /\ NoDiskTemplate(last.name))
    => (last.ok /\ last.value = memoryTemplates[Key(last.lang, last.name)])

----------------------------------------------------------------------------
(* Engine defaults *)

\* The built-in fallback values of the engine defaults.
StatedBuiltIns ==
    (K_APP_NAME :> JsString(<<"Your App">>))
    @@ (K_APP_URL :> JsString(<<"https://example.com">>))
    @@ (K_SUPPORT_EMAIL :> JsString(<<"support@example.com">>))
    @@ (K_STATUS_URL :> JsString(<<"https://status.example.com">>))
    @@ (K_TERMS_URL :> JsString(<<"https://example.com/terms">>))
    @@ (K_COMMUNITY_GUIDELINES_URL :>
          JsString(<<"https://example.com/community-guidelines">>))
    @@ (K_LEGAL_EMAIL :> JsString(<<"legal@example.com">>))
    @@ (K_APPEALS_EMAIL :> JsString(<<"support@example.com">>))
    @@ (K_LOGO_URL :> JsString(<<"https://cdn.example.com/logo.png">>))
    @@ (K_CURRENT_YEAR :> CurrentYear)

\* The engine was constructed with options.defaults holding one key.
SingleOption == Cardinality(DOMAIN last.opts) = 1
OptionKey == CHOOSE k \in DOMAIN last.opts : TRUE

\* C29: an engine constructed with options.defaults holding one key has
\* that key at the given value and every other default key at its built-in
\* value, before and after replaceVariables.
C29_SingleKeyOnly ==
    SingleOption =>
        /\ DOMAIN defaults = DOMAIN StatedBuiltIns \cup {OptionKey}
        /\ defaults[OptionKey] = last.opts[OptionKey]
        /\ \A k \in DOMAIN StatedBuiltIns \ {OptionKey} :
              defaults[k] = StatedBuiltIns[k]

\* APPEALS_EMAIL follows a SUPPORT_EMAIL given alone.
Follows(k) ==
    /\ k = K_APPEALS_EMAIL
    /\ OptionKey = K_SUPPORT_EMAIL
    /\ last.opts[OptionKey].type = "string" /\ last.opts[OptionKey].str # <<>>

\* C29 as amended: the same, except that APPEALS_EMAIL takes the value of
\* a non-empty SUPPORT_EMAIL given as the one key.
C29_SingleKeyAndAppeals ==
    SingleOption =>
        /\ DOMAIN defaults = DOMAIN StatedBuiltIns \cup {OptionKey}
        /\ defaults[OptionKey] = last.opts[OptionKey]
        /\ \A k \in DOMAIN StatedBuiltIns \ {OptionKey} :
              defaults[k] = IF Follows(k) THEN last.opts[OptionKey]
                            ELSE StatedBuiltIns[k]

\* replaceVariables ran on an engine constructed with SUPPORT_EMAIL alone:
\* APPEALS_EMAIL holds the same address, LEGAL_EMAIL its built-in value.
C29_Witness ==
    /\ Replaced
    /\ DOMAIN last.opts = {K_SUPPORT_EMAIL}
    /\ defaults[K_SUPPORT_EMAIL] = JsString(<<"s@example.com">>)
    /\ defaults[K_APPEALS_EMAIL] = JsString(<<"s@example.com">>)
    /\ defaults[K_LEGAL_EMAIL] = JsString(<<"legal@example.com">>)

----------------------------------------------------------------------------
(* Placeholders with a default *)

\* The keys for which the defaults hold a value.
Defaulted == {k \in DOMAIN defaults : ~IsNullish(defaults[k])}

\* The caller's bag holds the key with null or undefined.
HeldNull(k) == k \in DOMAIN last.vars /\ IsNullish(last.vars[k])

\* The caller's value when it is not null or undefined, the default else.
CallerOrDefault(k) ==
    IF k \in DOMAIN last.vars /\ ~IsNullish(last.vars[k]) THEN last.vars[k]
    ELSE Get(defaults, k)

Warned(k) ==
    \E i \in 1..Len(last.warn) : \E j \in 1..Len(last.warn[i]) : last.warn[i][j] = k

PlacedKeys == {last.segs[i].s : i \in {j \in 1..Len(last.segs) : last.segs[j].kind = "var"}}

\* C30: a placeholder whose key has a default is replaced by the caller's
\* value when that is not null or undefined and by the default otherwise,
\* and no warning names it, whatever bag the caller passes.
C30_DefaultNeverMissing ==
    Replaced =>
        /\ last.value =
              StatedOutput(last.segs,
                           [k \in DOMAIN last.vars \cup DOMAIN defaults |->
                              IF k \in Defaulted THEN CallerOrDefault(k)
                              ELSE Get(last.vars, k)])
        /\ \A k \in PlacedKeys \cap Defaulted : ~Warned(k)

\* C30 as amended: that holds for the bags that do not hold the key with
\* null or undefined; a placeholder whose key the bag holds with null or
\* undefined is replaced by nothing and warned as missing, default or not.
C30_DefaultUnlessNullGiven ==
    Replaced =>
        /\ last.value =
              StatedOutput(last.segs,
                           [k \in DOMAIN last.vars \cup DOMAIN defaults |->
                              IF k \in Defaulted /\ ~HeldNull(k) THEN CallerOrDefault(k)
                              ELSE Get(last.vars, k)])
        /\ \A k \in PlacedKeys \cap Defaulted : Warned(k) <=> HeldNull(k)

\* "{{X}}{{APP_NAME}}" with X null and no APP_NAME in the bag gave the
\* default application name, and the warning named X alone.
C30_Witness ==
    /\ Replaced
    /\ last.segs = <<Place(K_X), Place(K_APP_NAME)>>
    /\ Get(last.vars, K_X) = JsNull
    /\ K_APP_NAME \notin DOMAIN last.vars
    /\ last.value = <<"Your App">>
    /\ last.warn = <<<<K_X>>>>

----------------------------------------------------------------------------
(* Two instances                                                           *)
(* instances[i] holds the fields of the i-th object constructed; heap      *)
(* holds the objects that a reference can be shared to: the per-language   *)
(* subject objects, those of options.subjects first.                       *)

\* The option objects handed to the constructors: options.subjects as its
\* entries (template, per-language object), options.defaults.
InitialHeap == <<(L_en :> <<"H", "i">>)>>
SharedOptions ==
    [subjects |-> <<[template |-> N_ab, ref |-> 1]>>,
     defaults |-> K_APP_NAME :> JsString(<<"A">>)]

\* this.subjects.set(template, perLang): the object of the options stored
\* as it is.
setSubjectShared(h, ref) == [heap |-> h, ref |-> ref]

\* this.subjects.set(template, { ...perLang }): a new object with the
\* entries of the one of the options.
setSubject(h, ref) == [heap |-> Append(h, h[ref]), ref |-> Len(h) + 1]

RECURSIVE copySubjects(_, _, _)
\* for (const [template, perLang] of Object.entries(options.subjects))
copySubjects(h, entries, refs) ==
    IF entries = <<>> THEN [heap |-> h, refs |-> refs]
    ELSE LET s == setSubject(h, Head(entries).ref) IN
         copySubjects(s.heap, Tail(entries), MapSet(refs, Head(entries).template, s.ref))

\* new TemplateEngine(options) and new EmailClient(options): the object
\* and the heap after it.
construct(h, kind, options) ==
    IF kind = "engine"
    THEN [heap |-> h,
          inst |-> [kind |-> "engine", defaultLang |-> L_en, cache |-> EmptyMap,
                    memoryTemplates |-> EmptyMap,
                    defaults |-> EngineDefaults(options.defaults),
                    subjects |-> EmptyMap]]
    ELSE LET c == copySubjects(h, options.subjects, EmptyMap) IN
         [heap |-> c.heap,
          inst |-> [kind |-> "client", defaultLang |-> L_en, cache |-> EmptyMap,
                    memoryTemplates |-> EmptyMap,
                    defaults |-> ClientDefaults(options.defaults),
                    subjects |-> c.refs]]

RECURSIVE tryCandidatesOf(_, _, _)
\* The candidate loop of load on the object inst: the cache after it.
tryCandidatesOf(inst, candidates, templateName) ==
    IF candidates = <<>> THEN [found |-> FALSE, cache |-> inst.cache]
    ELSE LET key == Key(Head(candidates), templateName) IN
         IF key \in DOMAIN inst.memoryTemplates \/ key \in DOMAIN inst.cache
         THEN [found |-> TRUE, cache |-> inst.cache]
         ELSE LET r == readTemplateFromDiskSync(templateName, Head(candidates)) IN
              IF r.ok THEN [found |-> TRUE, cache |-> MapSet(inst.cache, key, r.value)]
              ELSE tryCandidatesOf(inst, Tail(candidates), templateName)

\* TemplateEngine.load on the object inst.
loadOf(inst, templateName, lang) ==
    LET first == tryCandidatesOf(inst, getLangCandidates(lang), templateName) IN
    IF first.found THEN first
    ELSE tryCandidatesOf(inst, getLangCandidates(inst.defaultLang), templateName)

\* EmailClient.#loadTemplate on the object inst.
loadTemplateOf(inst, templateName, lang) ==
    LET key == Key(lang, templateName) IN
    IF key \in DOMAIN inst.memoryTemplates \/ key \in DOMAIN inst.cache
    THEN [found |-> TRUE, cache |-> inst.cache]
    ELSE LET r == clientReadTemplateFromDiskSync(templateName, lang) IN
         IF r.ok THEN [found |-> TRUE, cache |-> MapSet(inst.cache, key, r.value)]
         ELSE [found |-> FALSE, cache |-> inst.cache]

InstanceKinds == {"engine", "client"}
InstanceLangs == {L_en, L_frFR}
InstanceFiles == {JoinPath(L_enEN, N_w), JoinPath(L_frFR, N_w)}
InstanceSubjects == {<<"B">>}

singleVars ==
    <<defaultLang, memoryTemplates, cache, defaults, subjects, defaultFrom,
      transporter, task>>

\* Two objects, each an engine or a client, constructed with the same
\* option objects.
InitInstances ==
    /\ defaultLang = L_en
    /\ memoryTemplates = EmptyMap
    /\ cache = EmptyMap
    /\ disk = [p \in AllFiles |-> NoValue]
    /\ defaults = EngineDefaults(NoOptions)
    /\ subjects = EmptyMap
    /\ defaultFrom = DefaultFrom
    /\ transporter = <<>>
    /\ task = NoTask
    /\ last = NoCall
    /\ \E k1 \in InstanceKinds, k2 \in InstanceKinds :
          \E c1 \in {construct(InitialHeap, k1, SharedOptions)} :
          \E c2 \in {construct(c1.heap, k2, SharedOptions)} :
             /\ heap = c2.heap
             /\ instances = <<c1.inst, c2.inst>>

\* instances[i].registerTemplateString(templateName, templateString, lang)
RegisterTemplateStringOn(i, templateName, templateString, lang) ==
    /\ \/ Key(lang, templateName) \in DOMAIN instances[i].memoryTemplates
       \/ Cardinality(DOMAIN instances[i].memoryTemplates) < MaxMem
    /\ instances' = [instances EXCEPT ![i].memoryTemplates =
                        MapSet(@, Key(lang, templateName), templateString)]
    /\ last' = [NoCall EXCEPT !.op = "called", !.on = i]
    /\ UNCHANGED <<singleVars, disk, heap>>

\* instances[i].clearCache()
ClearCacheOn(i) ==
    /\ instances' = [instances EXCEPT ![i].cache = EmptyMap]
    /\ last' = [NoCall EXCEPT !.op = "called", !.on = i]
    /\ UNCHANGED <<singleVars, disk, heap>>

\* instances[i].load(templateName, lang) of an engine, and the load of a
\* template by compileTemplate of a client.
LoadOn(i, templateName, lang) ==
    /\ \E r \in {IF instances[i].kind = "engine"
                 THEN loadOf(instances[i], templateName, lang)
                 ELSE loadTemplateOf(instances[i], templateName, lang)} :
          /\ instances' = [instances EXCEPT ![i].cache = r.cache]
          /\ last' = [NoCall EXCEPT !.op = "called", !.on = i]
    /\ UNCHANGED <<singleVars, disk, heap>>

\* if (!this.subjects.has(templateName)) this.subjects.set(templateName, {})
\* and this.subjects.get(templateName): the heap and the reference.
subjectObject(inst, h, templateName) ==
    IF templateName \in DOMAIN inst.subjects
    THEN [heap |-> h, ref |-> inst.subjects[templateName]]
    ELSE [heap |-> Append(h, EmptyMap), ref |-> Len(h) + 1]

\* instances[i].registerSubject(templateName, lang, subject)
RegisterSubjectOn(i, templateName, lang, subject) ==
    /\ instances[i].kind = "client"
    /\ \E o \in {subjectObject(instances[i], heap, templateName)} :
          /\ heap' = [o.heap EXCEPT ![o.ref] = MapSet(@, lang, subject)]
          /\ instances' = [instances EXCEPT ![i].subjects = MapSet(@, templateName, o.ref)]
    /\ last' = [NoCall EXCEPT !.op = "called", !.on = i]
    /\ UNCHANGED <<singleVars, disk>>

\* instances[i].registerSubjects(templateName, map)
RegisterSubjectsOn(i, templateName, map) ==
    /\ instances[i].kind = "client"
    /\ \E o \in {subjectObject(instances[i], heap, templateName)} :
          /\ heap' = [o.heap EXCEPT ![o.ref] = Merge(@, map)]
          /\ instances' = [instances EXCEPT ![i].subjects = MapSet(@, templateName, o.ref)]
    /\ last' = [NoCall EXCEPT !.op = "called", !.on = i]
    /\ UNCHANGED <<singleVars, disk>>

NextInstances ==
    \/ \E i \in 1..2, l \in InstanceLangs : RegisterTemplateStringOn(i, N_w, <<"M1">>, l)
    \/ \E i \in 1..2 : ClearCacheOn(i)
    \/ \E i \in 1..2, l \in InstanceLangs : LoadOn(i, N_w, l)
    \/ \E i \in 1..2, n \in {N_ab, N_w}, s \in InstanceSubjects :
          RegisterSubjectOn(i, n, L_en, s)
    \/ \E i \in 1..2 : RegisterSubjectsOn(i, N_ab, L_fr :> <<"C">>)
    \/ \E p \in InstanceFiles, c \in {<<"D1">>, NoValue} : DiskWrite(p, c)

SpecInstances == InitInstances /\ [][NextInstances]_vars

\* What the i-th object holds, its subject objects followed to the heap.
Fields(i) ==
    [cache |-> instances[i].cache,
     memoryTemplates |-> instances[i].memoryTemplates,
     defaults |-> instances[i].defaults,
     subjects |-> [n \in DOMAIN instances[i].subjects |-> heap[instances[i].subjects[n]]]]

\* What the option objects hold.
OptionFields ==
    [subjects |-> [k \in 1..Len(SharedOptions.subjects) |->
                      heap[SharedOptions.subjects[k].ref]],
     defaults |-> SharedOptions.defaults]

\* C26: a call on one object leaves the cache, the memory map, the defaults
\* and the subjects of the other object as they were, and leaves the option
\* objects as they were.
C26_InstancesIsolated ==
    [][/\ \A j \in 1..2 : j # last'.on => Fields(j)' = Fields(j)
       /\ OptionFields' = OptionFields]_vars

\* Two clients constructed from the same options: the first has registered
\* another subject for the template of the options and has loaded a file;
\* the second and the options hold the subject of the options, and the
\* cache of the second is empty.
C26_Witness ==
    /\ instances[1].kind = "client" /\ instances[2].kind = "client"
    /\ N_ab \in DOMAIN instances[1].subjects /\ N_ab \in DOMAIN instances[2].subjects
    /\ Fields(1).subjects[N_ab] = (L_en :> <<"B">>)
    /\ Fields(2).subjects[N_ab] = (L_en :> <<"H", "i">>)
    /\ OptionFields.subjects[1] = (L_en :> <<"H", "i">>)
    /\ instances[1].cache # EmptyMap /\ instances[2].cache = EmptyMap
    /\ last.on = 1

====
